---- MODULE Spec2Model ----
(***************************************************************************)
(* A model of parrotfish's step-function optimizer                         *)
(* (src/src/step_function/step_function.py):                               *)
(*   - the workflow builder (_create_workflow) and the payload propagator  *)
(*     (_set_workflow_payloads) with its pooled branch/iteration workers,  *)
(*     specification Spec;                                                 *)
(*   - the per-function optimizer (_optimize_functions), the escalation    *)
(*     loop (optimize_whole_step_function) and reset_memory_sizes,         *)
(*     specification SpecEsc.                                              *)
(* A workflow object is named by its path in the tree: the root workflow   *)
(* is <<>>, state k of workflow p is p \o <<k>>, and branch (iteration) i  *)
(* of state s is the workflow s \o <<i>>.                                  *)
(***************************************************************************)
EXTENDS Integers, Sequences, FiniteSets, TLC

VARIABLES
  definition,           \* self.definition: which workflow definition is loaded
  workflow_input,       \* entry["payload"] of the payload being processed
  wfs,                  \* the Workflow objects: path -> Workflow.states
  function_tasks_dict,  \* self.function_tasks_dict: function name -> list of Tasks
  task_input,           \* Task.input: task -> the payload recorded on it
  state_input,          \* history: the input _set_state_input was called with, per state
  state_output,         \* the value _set_state_input returned for each state
  frames,               \* the running calls of _set_workflow_payloads (one per thread)
  ppc,                  \* where optimize() is in lines 26-28
  memory_increment,     \* config.memory_size_increment
  threshold,            \* config.constraint_execution_time_threshold (or None)
  memory_space,         \* function -> parrotfish.sampler.memory_space
  param_function,       \* Task.param_function: task -> the fitted curve
  collective_costs,     \* function -> collective_costs of the _optimize_one_function
                        \* call that just returned (a local: gone afterwards)
  memory_size,          \* Task.memory_size
  initial_memory_size,  \* Task.initial_memory_size
  max_memory_size,      \* Task.max_memory_size
  cost_increases,       \* the dict cost_increases of optimize_whole_step_function
  critical_path_tasks,  \* its local critical_path_tasks
  critical_path_time,   \* its local critical_path_time
  epc,                  \* where optimize() is in lines 31-34
  calls,                \* history: calls of optimize_whole_step_function so far
  bumps,                \* history: loop iterations of this call that bumped a function
  at_call,              \* history: memory sizes and critical-path time when the call began
  before               \* history: memory sizes, critical path and time before the last iteration

propVars == <<definition, workflow_input, wfs, function_tasks_dict, task_input,
              state_input, state_output, frames, ppc>>

escVars == <<memory_increment, threshold, memory_space, param_function, collective_costs,
             memory_size,
             initial_memory_size, max_memory_size, cost_increases, critical_path_tasks,
             critical_path_time, epc, calls, bumps, at_call, before>>

vars == <<propVars, escVars>>

(***************************************************************************)
(* Bounds of the model.                                                    *)
(***************************************************************************)
MaxItems == 2
MaxThreshold == 2
MaxCalls == 2

\* constraint_execution_time_threshold left unset
None == 0 - 1

(***************************************************************************)
(* JSON values and JSON texts.  A value is a number, an array or the       *)
(* object {"items": v}; a text is a value together with the way it is      *)
(* written ("py": as json.dumps writes it, "raw": as a function returned   *)
(* it or as the user typed it).                                            *)
(***************************************************************************)
Num(n) == [k |-> "num", n |-> n, a |-> <<>>]
Str == [k |-> "str", n |-> 0, a |-> <<>>]   \* the string "items"
Arr(s) == [k |-> "arr", n |-> 0, a |-> s]
Obj(v) == [k |-> "obj", n |-> 0, a |-> <<v>>]

json_loads(text) == text.v
json_dumps(value) == [v |-> value, fmt |-> "py"]
RawText(value) == [v |-> value, fmt |-> "raw"]

Front(s) == SubSeq(s, 1, Len(s) - 1)
Last(s) == s[Len(s)]

RECURSIVE Iota(_)
Iota(n) == IF n = 0 THEN <<>> ELSE Append(Iota(n - 1), Num(n))

(***************************************************************************)
(* The workflow definitions the model loads, in the Step Functions format  *)
(* _create_workflow reads (StartAt, States, Type, Next/End, Parameters,    *)
(* Branches, Iterator, ItemsPath).                                         *)
(***************************************************************************)
TaskDef(f) == [Type |-> "Task", Parameters |-> [FunctionName |-> f], End |-> TRUE]
TaskNext(f, nxt) == [Type |-> "Task", Parameters |-> [FunctionName |-> f], Next |-> nxt]
OneTask(f) == [StartAt |-> "T", States |-> [T |-> TaskDef(f)]]
TwoTasks(f, g) ==
  [StartAt |-> "T", States |-> [T |-> TaskNext(f, "U"), U |-> TaskDef(g)]]
OneMap(path, it) ==
  [StartAt |-> "M",
   States |-> [M |-> [Type |-> "Map", Iterator |-> it, ItemsPath |-> path, End |-> TRUE]]]

DefIds == (1 .. 5) \cup {10, 11}

DefOf(d) ==
  CASE d = 1 ->  \* Parallel of three branches: [A], [B -> C], [A]
         [StartAt |-> "P",
          States |-> [P |-> [Type |-> "Parallel",
                             Branches |-> <<OneTask("A"), TwoTasks("B", "C"), OneTask("A")>>,
                             End |-> TRUE]]]
    [] d = 2 ->  \* a Map over $.items whose iterator is one Task
         OneMap("$.items", OneTask("A"))
    [] d = 3 ->  \* a Parallel whose two branches each hold a Map over the same function:
                 \* one over $.items, one over the keys of the payload
         [StartAt |-> "P",
          States |-> [P |-> [Type |-> "Parallel",
                             Branches |-> <<OneMap("$.items", OneTask("F")),
                                            OneMap("$", OneTask("F"))>>,
                             Next |-> "T"],
                      T |-> TaskDef("G")]]
    [] d = 4 ->  \* Task -> Map over the task's output -> Task
         [StartAt |-> "T",
          States |-> [T |-> TaskNext("A", "M"),
                      M |-> [Type |-> "Map", Iterator |-> OneTask("B"),
                             ItemsPath |-> "$", Next |-> "U"],
                      U |-> TaskDef("A")]]
    [] d = 5 ->  \* a Map whose iterator holds a Map
         OneMap("$.items", OneMap("$", OneTask("F")))
    [] d = 6 ->  \* a chain of two Tasks of one function
         TwoTasks("F", "F")
    [] d = 7 ->  \* Parallel [F], [G], then a Task of F
         [StartAt |-> "P",
          States |-> [P |-> [Type |-> "Parallel",
                             Branches |-> <<OneTask("F"), OneTask("G")>>, Next |-> "T"],
                      T |-> TaskDef("F")]]
    [] d = 8 ->  \* Parallel [F], [G -> H]
         [StartAt |-> "P",
          States |-> [P |-> [Type |-> "Parallel",
                             Branches |-> <<OneTask("F"), TwoTasks("G", "H")>>,
                             End |-> TRUE]]]
    [] d = 9 ->  \* a Parallel with no branch, then Parallel [F], [G]
         [StartAt |-> "E",
          States |-> [E |-> [Type |-> "Parallel", Branches |-> <<>>, Next |-> "P"],
                      P |-> [Type |-> "Parallel",
                             Branches |-> <<OneTask("F"), OneTask("G")>>, End |-> TRUE]]]
    [] d = 10 -> \* Task -> Parallel [B], [a Choice state] -> Task
         [StartAt |-> "T",
          States |-> [T |-> TaskNext("A", "P"),
                      P |-> [Type |-> "Parallel",
                             Branches |-> <<OneTask("B"),
                                            [StartAt |-> "X",
                                             States |-> [X |-> [Type |-> "Choice",
                                                                End |-> TRUE]]]>>,
                             Next |-> "U"],
                      U |-> TaskDef("C")]]
    [] d = 11 -> \* a Map whose iterator is Task -> a Wait state
         OneMap("$.items",
                [StartAt |-> "T",
                 States |-> [T |-> TaskNext("A", "W"), W |-> [Type |-> "Wait", End |-> TRUE]]])

\* The top-level payloads: {"items": [1, .., n]} and {"items": [[1], [1, .., MaxItems]]}.
Payloads ==
  { RawText(Obj(Arr(Iota(n)))) : n \in 0 .. MaxItems }
    \cup { RawText(Obj(Arr(<<Arr(Iota(1)), Arr(Iota(MaxItems))>>))) }

FnCode(f) ==
  CASE f = "A" -> 11 [] f = "B" -> 12 [] f = "C" -> 13 [] f = "F" -> 14 [] f = "G" -> 15
    [] f = "H" -> 16

\* The live function: its response body for an input (Task.get_output).
Invoke(function_name, input) ==
  RawText(Arr(<<Num(FnCode(function_name)), json_loads(input)>>))

(***************************************************************************)
(* _create_workflow.  CreateWorkflow(def, p) is the Workflow built at path *)
(* p: the Workflow objects it creates (wfs) and the Tasks it creates, in   *)
(* creation order (tasks), each of which _create_state puts into           *)
(* function_tasks_dict.                                                    *)
(***************************************************************************)
\* lines 115-127: the names of the states the while loop adds
ChainFromStart(workflow_def, state_name) == <<state_name>>
RECURSIVE ChainFrom(_, _)
ChainFrom(workflow_def, state_name) ==
  LET state_def == workflow_def.States[state_name] IN
  IF "Next" \in DOMAIN state_def
    THEN <<state_name>> \o ChainFrom(workflow_def, state_def.Next)
    ELSE <<state_name>>

NoWfs == [p \in {} |-> <<>>]

RECURSIVE CreateWorkflow(_, _), CreateBranches(_, _, _), CreateStates(_, _, _, _)

CreateBranches(branches, s, i) ==
  IF i > Len(branches) THEN [ok |-> TRUE, wfs |-> NoWfs, tasks |-> <<>>]
  ELSE LET b == CreateWorkflow(branches[i], Append(s, i)) IN
       IF ~b.ok THEN b
       ELSE LET r == CreateBranches(branches, s, i + 1)
            IN [ok |-> r.ok, wfs |-> b.wfs @@ r.wfs, tasks |-> b.tasks \o r.tasks]

\* ok is FALSE where _create_state raises StepFunctionError; wfs and tasks are
\* then the objects created, and the Tasks put into the index, before the raise.
CreateState(name, state_def, s) ==
  IF state_def.Type = "Task" THEN
    [ok |-> TRUE,
     state |-> [name |-> name, type |-> "Task",
                function_name |-> state_def.Parameters.FunctionName],
     wfs |-> NoWfs, tasks |-> <<s>>]
  ELSE IF state_def.Type = "Parallel" THEN
    LET b == CreateBranches(state_def.Branches, s, 1) IN
    [ok |-> b.ok,
     state |-> [name |-> name, type |-> "Parallel", n |-> Len(state_def.Branches)],
     wfs |-> b.wfs, tasks |-> b.tasks]
  ELSE IF state_def.Type = "Map" THEN
    [ok |-> TRUE,
     state |-> [name |-> name, type |-> "Map", workflow_def |-> state_def.Iterator,
                items_path |-> state_def.ItemsPath, n |-> 0],
     wfs |-> NoWfs, tasks |-> <<>>]
  ELSE  \* raise StepFunctionError("Only Support Task, Parallel, Map State Types.")
    [ok |-> FALSE, state |-> [name |-> name, type |-> "Unsupported"],
     wfs |-> NoWfs, tasks |-> <<>>]

\* the while loop of lines 116-127: a state is added once _create_state returned
CreateStates(workflow_def, names, p, k) ==
  IF k > Len(names) THEN [ok |-> TRUE, states |-> <<>>, wfs |-> NoWfs, tasks |-> <<>>]
  ELSE LET c == CreateState(names[k], workflow_def.States[names[k]], Append(p, k)) IN
       IF ~c.ok THEN [ok |-> FALSE, states |-> <<>>, wfs |-> c.wfs, tasks |-> c.tasks]
       ELSE LET r == CreateStates(workflow_def, names, p, k + 1)
            IN [ok |-> r.ok, states |-> <<c.state>> \o r.states, wfs |-> c.wfs @@ r.wfs,
                tasks |-> c.tasks \o r.tasks]

CreateWorkflow(workflow_def, p) ==
  LET c == CreateStates(workflow_def, ChainFrom(workflow_def, workflow_def.StartAt), p, 1)
  IN [ok |-> c.ok, wfs |-> (p :> c.states) @@ c.wfs, tasks |-> c.tasks]

\* state.iterations = [self._create_workflow(state.workflow_def) for _ in range(n)]
RECURSIVE CreateIterations(_, _, _, _)
CreateIterations(workflow_def, s, i, n) ==
  IF i > n THEN [ok |-> TRUE, wfs |-> NoWfs, tasks |-> <<>>]
  ELSE LET b == CreateWorkflow(workflow_def, Append(s, i)) IN
       IF ~b.ok THEN b
       ELSE LET r == CreateIterations(workflow_def, s, i + 1, n)
            IN [ok |-> r.ok, wfs |-> b.wfs @@ r.wfs, tasks |-> b.tasks \o r.tasks]

StateAt(s) == wfs[Front(s)][Last(s)]

(***************************************************************************)
(* _set_workflow_payloads.  A frame is one call of it, run by one thread:  *)
(* the root call by the main thread, a branch's or an iteration's call by  *)
(* a worker of the ThreadPoolExecutor of the enclosing Parallel or Map.    *)
(*   status  "queued" (submitted, no free worker), "running", "done"       *)
(*           (returned payload), "failed" (raised)                         *)
(*   idx     the position in workflow.states of the state being processed  *)
(*   payload the payload variable of the loop in lines 214-219             *)
(*   phase   "build": the root _create_workflow is inserting its Tasks;    *)
(*           "exec": between two states; "create": line 194 is inserting   *)
(*           the Tasks of the new iterations; "collect": in the            *)
(*           as_completed loop; "aborting": a future raised and the        *)
(*           executor's with-block is waiting for the other workers        *)
(*   pending the Tasks _create_state still has to put into the index       *)
(*   step    where lines 90-94 are for Head(pending)                       *)
(***************************************************************************)
max_workers == 10

NewFrame(status, payload) ==
  [status |-> status, idx |-> 1, input |-> payload, payload |-> payload, phase |-> "exec",
   pending |-> <<>>, ok |-> TRUE, step |-> "check", inputs |-> <<>>, outputs |-> <<>>,
   collected |-> {}]

CurState(p) == wfs[p][frames[p].idx]
CurPath(p) == Append(p, frames[p].idx)

Running(p) ==
  /\ ppc \in {"creating", "propagating"}
  /\ p \in DOMAIN frames
  /\ frames[p].status = "running"

AtState(p, type) ==
  /\ Running(p)
  /\ frames[p].phase = "exec"
  /\ frames[p].idx <= Len(wfs[p])
  /\ CurState(p).type = type

\* line 217: the payload _set_state_input is called with
StateInputFromCall(p) == frames[p].input
StateInput(p) == frames[p].payload

\* _extract_items: parse(items_path).find(json.loads(input_data))[0].value, each
\* item dumped.  ok is FALSE where the code raises: no match ([0] of an empty
\* list) or a value that cannot be iterated (a number).
ExtractOneItem(input_data, items_path) == [ok |-> TRUE, items |-> <<input_data>>]
ExtractItems(input_data, items_path) ==
  LET data == json_loads(input_data)
      matches == IF items_path = "$" THEN <<data>>
                 ELSE IF data.k = "obj" THEN <<data.a[1]>> ELSE <<>>
  IN IF matches = <<>> THEN [ok |-> FALSE, items |-> <<>>]
     ELSE LET value == matches[1] IN
          IF value.k = "arr"
            THEN [ok |-> TRUE, items |-> [i \in 1 .. Len(value.a) |-> json_dumps(value.a[i])]]
          ELSE IF value.k = "obj"   \* iterating a dict yields its keys
            THEN [ok |-> TRUE, items |-> <<json_dumps(Str)>>]
          ELSE IF value.k = "str" THEN [ok |-> TRUE, items |-> <<>>]
          ELSE [ok |-> FALSE, items |-> <<>>]

\* executor.submit of one call per input: the pool starts at most max_workers
\* of them.
Submit(s, inputs) ==
  [c \in { Append(s, i) : i \in 1 .. Len(inputs) } |->
     NewFrame(IF Last(c) <= max_workers THEN "running" ELSE "queued", inputs[Last(c)])]

\* A worker that ends takes the next queued call of its pool, if any.
NextQueued(p, fr) ==
  IF p = <<>> THEN fr
  ELSE LET sibs == { c \in DOMAIN fr : /\ Len(c) = Len(p) /\ Front(c) = Front(p)
                                       /\ fr[c].status = "queued" }
       IN IF sibs = {} THEN fr
          ELSE LET c == CHOOSE c \in sibs : \A d \in sibs : Last(c) <= Last(d)
               IN [fr EXCEPT ![c].status = "running"]

\* An exception leaves the call p of _set_workflow_payloads (or, for the root
\* during line 27, _create_workflow): it reaches optimize()'s caller from the
\* root call and the future of a pooled call.
Raise(p) ==
  /\ frames' = NextQueued(p, [frames EXCEPT ![p].status = "failed"])
  /\ ppc' = IF p = <<>> THEN "error" ELSE ppc

\* optimize(), lines 26-27: the index is reset and the root workflow is built.
CreateWorkflowBegin ==
  /\ ppc = "start"
  /\ LET c == CreateWorkflow(DefOf(definition), <<>>) IN
       /\ wfs' = c.wfs
       /\ frames' = (<<>> :> [NewFrame("running", workflow_input) EXCEPT
                                !.phase = "build", !.idx = 0, !.pending = c.tasks,
                                !.ok = c.ok])
  /\ function_tasks_dict' = <<>>
  /\ ppc' = "creating"
  /\ UNCHANGED <<definition, workflow_input, task_input, state_input, state_output>>
  /\ UNCHANGED escVars

Inserting(p) ==
  /\ Running(p)
  /\ frames[p].phase \in {"build", "create"}
  /\ frames[p].pending # <<>>

PendingFn(p) == StateAt(Head(frames[p].pending)).function_name

\* line 90: if function_name not in self.function_tasks_dict
IndexCheck(p) ==
  /\ Inserting(p)
  /\ frames[p].step = "check"
  /\ frames' = [frames EXCEPT ![p].step =
                  IF PendingFn(p) \notin DOMAIN function_tasks_dict THEN "init" ELSE "append"]
  /\ UNCHANGED <<definition, workflow_input, wfs, function_tasks_dict, task_input, state_input,
                 state_output, ppc>>
  /\ UNCHANGED escVars

\* lines 91-93: self.function_tasks_dict[function_name] = [] (and set_config)
IndexInit(p) ==
  /\ Inserting(p)
  /\ frames[p].step = "init"
  /\ function_tasks_dict' = (PendingFn(p) :> <<>>) @@ function_tasks_dict
  /\ frames' = [frames EXCEPT ![p].step = "append"]
  /\ UNCHANGED <<definition, workflow_input, wfs, task_input, state_input, state_output, ppc>>
  /\ UNCHANGED escVars

\* line 94: self.function_tasks_dict[function_name].append(task)
IndexAppend(p) ==
  /\ Inserting(p)
  /\ frames[p].step = "append"
  /\ function_tasks_dict' =
       [function_tasks_dict EXCEPT ![PendingFn(p)] = Append(@, Head(frames[p].pending))]
  /\ frames' = [frames EXCEPT ![p].step = "check", ![p].pending = Tail(@)]
  /\ UNCHANGED <<definition, workflow_input, wfs, task_input, state_input, state_output, ppc>>
  /\ UNCHANGED escVars

\* line 27 returns: self.workflow is set, line 28 calls _set_workflow_payloads.
CreateWorkflowEnd ==
  /\ ppc = "creating"
  /\ frames[<<>>].phase = "build"
  /\ frames[<<>>].pending = <<>>
  /\ frames[<<>>].ok
  /\ frames' = [frames EXCEPT ![<<>>].phase = "exec", ![<<>>].idx = 1]
  /\ ppc' = "propagating"
  /\ UNCHANGED <<definition, workflow_input, wfs, function_tasks_dict, task_input, state_input,
                 state_output>>
  /\ UNCHANGED escVars

\* line 112 inside line 27: StepFunctionError leaves _create_workflow, no
\* Workflow is returned and line 28 is not reached.
CreateWorkflowRaise ==
  /\ ppc = "creating"
  /\ frames[<<>>].phase = "build"
  /\ frames[<<>>].pending = <<>>
  /\ ~frames[<<>>].ok
  /\ Raise(<<>>)
  /\ UNCHANGED <<definition, workflow_input, wfs, function_tasks_dict, task_input, state_input,
                 state_output>>
  /\ UNCHANGED escVars

\* The functions whose live invocation may fail.
Unreliable == {"C"}

\* lines 165-169: a Task records its input and is invoked.
SetTaskInput(p) ==
  /\ AtState(p, "Task")
  /\ LET output == Invoke(CurState(p).function_name, StateInput(p)) IN
       /\ task_input' = (CurPath(p) :> StateInput(p)) @@ task_input
       /\ state_input' = (CurPath(p) :> StateInput(p)) @@ state_input
       /\ state_output' = (CurPath(p) :> output) @@ state_output
       /\ frames' = [frames EXCEPT ![p].payload = output, ![p].idx = @ + 1]
  /\ UNCHANGED <<definition, workflow_input, wfs, function_tasks_dict, ppc>>
  /\ UNCHANGED escVars

\* lines 167-172: the input is recorded, get_output raises and the exception
\* is re-raised.
SetTaskInputRaise(p) ==
  /\ AtState(p, "Task")
  /\ CurState(p).function_name \in Unreliable
  /\ task_input' = (CurPath(p) :> StateInput(p)) @@ task_input
  /\ state_input' = (CurPath(p) :> StateInput(p)) @@ state_input
  /\ Raise(p)
  /\ UNCHANGED <<definition, workflow_input, wfs, function_tasks_dict, state_output>>
  /\ UNCHANGED escVars

\* lines 175-181: every branch is submitted with the Parallel's input.
SubmitBranches(p) ==
  /\ AtState(p, "Parallel")
  /\ state_input' = (CurPath(p) :> StateInput(p)) @@ state_input
  /\ frames' = Submit(CurPath(p), [i \in 1 .. CurState(p).n |-> StateInput(p)])
                 @@ [frames EXCEPT ![p].phase = "collect", ![p].outputs = <<>>,
                                   ![p].collected = {}]
  /\ UNCHANGED <<definition, workflow_input, wfs, function_tasks_dict, task_input,
                 state_output, ppc>>
  /\ UNCHANGED escVars

\* lines 193-194: the items are extracted and the iterations' workflows built
\* (their Tasks are then put into the index, one by one).
ExtractItemsOfMap(p) ==
  /\ AtState(p, "Map")
  /\ state_input' = (CurPath(p) :> StateInput(p)) @@ state_input
  /\ LET e == ExtractItems(StateInput(p), CurState(p).items_path)
         c == CreateIterations(CurState(p).workflow_def, CurPath(p), 1, Len(e.items))
     IN IF e.ok
          THEN /\ wfs' = c.wfs @@ wfs
               /\ frames' = [frames EXCEPT ![p].phase = "create", ![p].inputs = e.items,
                                           ![p].pending = c.tasks, ![p].ok = c.ok,
                                           ![p].step = "check"]
               /\ ppc' = ppc
          ELSE /\ wfs' = wfs
               /\ Raise(p)
  /\ UNCHANGED <<definition, workflow_input, function_tasks_dict, task_input, state_output>>
  /\ UNCHANGED escVars

\* line 194 assigns state.iterations; lines 198-202 submit the iterations.
SubmitIterations(p) ==
  /\ Running(p)
  /\ frames[p].phase = "create"
  /\ frames[p].pending = <<>>
  /\ frames[p].ok
  /\ wfs' = [wfs EXCEPT ![p][frames[p].idx].n = Len(frames[p].inputs)]
  /\ frames' = Submit(CurPath(p), frames[p].inputs)
                 @@ [frames EXCEPT ![p].phase = "collect", ![p].outputs = <<>>,
                                   ![p].collected = {}]
  /\ UNCHANGED <<definition, workflow_input, function_tasks_dict, task_input, state_input,
                 state_output, ppc>>
  /\ UNCHANGED escVars

\* line 112 inside line 194: StepFunctionError leaves the list comprehension,
\* state.iterations is not assigned.
CreateIterationsRaise(p) ==
  /\ Running(p)
  /\ frames[p].phase = "create"
  /\ frames[p].pending = <<>>
  /\ ~frames[p].ok
  /\ Raise(p)
  /\ UNCHANGED <<definition, workflow_input, wfs, function_tasks_dict, task_input, state_input,
                 state_output>>
  /\ UNCHANGED escVars

Children(p) == { Append(CurPath(p), i) : i \in 1 .. CurState(p).n }

\* The futures the as_completed loop has not yielded yet.
Uncollected(p) ==
  IF frames[p].phase = "collect" THEN (1 .. CurState(p).n) \ frames[p].collected ELSE {}

\* lines 182-186 / 203-207: as_completed yields a finished future and its
\* result is appended to outputs.
CollectOutput(p, i) ==
  /\ Running(p)
  /\ frames[p].phase = "collect"
  /\ i \in Uncollected(p)
  /\ frames[Append(CurPath(p), i)].status = "done"
  /\ frames' = [frames EXCEPT
                  ![p].outputs = Append(@, json_loads(frames[Append(CurPath(p), i)].payload)),
                  ![p].collected = @ \cup {i}]
  /\ UNCHANGED <<definition, workflow_input, wfs, function_tasks_dict, task_input, state_input,
                 state_output, ppc>>
  /\ UNCHANGED escVars

\* lines 187-189 / 208-210: future.result() raises and the exception is
\* re-raised inside the with-block.
CollectError(p, i) ==
  /\ Running(p)
  /\ frames[p].phase = "collect"
  /\ i \in Uncollected(p)
  /\ frames[Append(CurPath(p), i)].status = "failed"
  /\ frames' = [frames EXCEPT ![p].phase = "aborting"]
  /\ UNCHANGED <<definition, workflow_input, wfs, function_tasks_dict, task_input, state_input,
                 state_output, ppc>>
  /\ UNCHANGED escVars

\* line 177 / 198: leaving the with-block runs ThreadPoolExecutor.__exit__,
\* which waits for every submitted call.
NoWait(p) == TRUE
AllWorkersFinished(p) == \A c \in Children(p) : frames[c].status \in {"done", "failed"}

\* The with-block is left by the exception, which then leaves
\* _set_workflow_payloads.
ExecutorExitRaise(p) ==
  /\ Running(p)
  /\ frames[p].phase = "aborting"
  /\ AllWorkersFinished(p)
  /\ Raise(p)
  /\ UNCHANGED <<definition, workflow_input, wfs, function_tasks_dict, task_input, state_input,
                 state_output>>
  /\ UNCHANGED escVars

\* lines 190 / 211: return json.dumps(outputs)
ReturnOutputs(p) ==
  /\ Running(p)
  /\ frames[p].phase = "collect"
  /\ frames[p].collected = 1 .. CurState(p).n
  /\ LET output == json_dumps(Arr(frames[p].outputs)) IN
       /\ state_output' = (CurPath(p) :> output) @@ state_output
       /\ frames' = [frames EXCEPT ![p].payload = output, ![p].idx = @ + 1,
                                   ![p].phase = "exec"]
  /\ UNCHANGED <<definition, workflow_input, wfs, function_tasks_dict, task_input,
                 state_input, ppc>>
  /\ UNCHANGED escVars

\* line 219: return payload
ReturnPayload(p) ==
  /\ Running(p)
  /\ frames[p].phase = "exec"
  /\ frames[p].idx > Len(wfs[p])
  /\ frames' = NextQueued(p, [frames EXCEPT ![p].status = "done"])
  /\ ppc' = IF p = <<>> THEN "propagated" ELSE ppc
  /\ UNCHANGED <<definition, workflow_input, wfs, function_tasks_dict, task_input, state_input,
                 state_output>>
  /\ UNCHANGED escVars

\* The optimizer has not run: nothing is assigned yet.
EscIdle ==
  /\ memory_increment = 1
  /\ threshold = None
  /\ memory_space = <<>>
  /\ param_function = <<>>
  /\ collective_costs = <<>>
  /\ memory_size = <<>>
  /\ initial_memory_size = <<>>
  /\ max_memory_size = <<>>
  /\ cost_increases = <<>>
  /\ critical_path_tasks = <<>>
  /\ critical_path_time = 0
  /\ epc = "init"
  /\ calls = 0
  /\ bumps = 0
  /\ at_call = [memory_size |-> <<>>, time |-> 0]
  /\ before = [memory_size |-> <<>>, cost_increases |-> <<>>, tasks |-> <<>>, time |-> 0,
               bumped |-> FALSE]

Init ==
  /\ definition \in DefIds
  /\ workflow_input \in Payloads
  /\ wfs = NoWfs
  /\ function_tasks_dict = <<>>
  /\ task_input = <<>>
  /\ state_input = <<>>
  /\ state_output = <<>>
  /\ frames = <<>>
  /\ ppc = "start"
  /\ EscIdle

Next ==
  \/ CreateWorkflowBegin
  \/ CreateWorkflowEnd
  \/ CreateWorkflowRaise
  \/ \E p \in DOMAIN frames : IndexCheck(p)
  \/ \E p \in DOMAIN frames : IndexInit(p)
  \/ \E p \in DOMAIN frames : IndexAppend(p)
  \/ \E p \in DOMAIN frames : SetTaskInput(p)
  \/ \E p \in DOMAIN frames : SetTaskInputRaise(p)
  \/ \E p \in DOMAIN frames : SubmitBranches(p)
  \/ \E p \in DOMAIN frames : ExtractItemsOfMap(p)
  \/ \E p \in DOMAIN frames : SubmitIterations(p)
  \/ \E p \in DOMAIN frames : CreateIterationsRaise(p)
  \/ \E p \in DOMAIN frames : \E i \in Uncollected(p) : CollectOutput(p, i)
  \/ \E p \in DOMAIN frames : \E i \in Uncollected(p) : CollectError(p, i)
  \/ \E p \in DOMAIN frames : ExecutorExitRaise(p)
  \/ \E p \in DOMAIN frames : ReturnOutputs(p)
  \/ \E p \in DOMAIN frames : ReturnPayload(p)

Spec == Init /\ [][Next]_vars

(***************************************************************************)
(* The optimizer: _optimize_functions, optimize_whole_step_function and    *)
(* reset_memory_sizes (specification SpecEsc).  Memory sizes are in units  *)
(* of 128 MB and durations are integers.                                   *)
(***************************************************************************)
EscDefIds == {2, 6, 7, 8, 9}
Axes == {<<1, 2, 3>>, <<1, 2, 4>>}
Increments == {1, 2}
Thresholds == {None} \cup { 4 * k : k \in 0 .. MaxThreshold }
CurveIds == 1 .. 3

\* The curves the Sampler may fit: param_function(memory) in ms.
Curve(c, memory) ==
  CASE c = 1 -> 12 \div memory
    [] c = 2 -> 4
    [] c = 3 -> 2 * memory

\* The collective cost vectors the Sampler may accumulate for an axis of n
\* sizes: the minimum first reached at index i (with ties after it), and one
\* vector over an explorer axis that is one size longer than the sampler's.
CostVectors(n) ==
  { [j \in 1 .. n |-> IF j >= i THEN 1 ELSE 2] : i \in 1 .. n }
    \cup { <<0>> \o [j \in 1 .. n |-> 1] }

FnOf(t) == StateAt(t).function_name

\* lines 90-94 run for each Task in creation order by one thread.
RECURSIVE IndexAll(_, _, _)
IndexAll(tasks, w, dict) ==
  IF tasks = <<>> THEN dict
  ELSE LET t == Head(tasks)
           f == w[Front(t)][Last(t)].function_name
           d == IF f \notin DOMAIN dict THEN (f :> <<>>) @@ dict ELSE dict
       IN IndexAll(Tail(tasks), w, [d EXCEPT ![f] = Append(@, t)])

\* The workflow of definition d after a propagation in which the Map of
\* definition 2 saw n items.
EscWorkflow(d, n) ==
  LET c == CreateWorkflow(DefOf(d), <<>>) IN
  IF d = 2
    THEN LET it == CreateIterations(c.wfs[<<>>][1].workflow_def, <<1>>, 1, n)
         IN [wfs |-> [(it.wfs @@ c.wfs) EXCEPT ![<<>>][1].n = n],
             tasks |-> c.tasks \o it.tasks]
    ELSE c

\* The element of a one-element set (its element is evaluated once).
TheOne(S) == CHOOSE x \in S : TRUE

RECURSIVE SumSeq(_)
SumSeq(q) == IF q = <<>> THEN 0 ELSE Head(q) + SumSeq(Tail(q))

\* Task.get_execution_time(memory) and Task.get_cost(memory)
TaskTime(t, memory) == Curve(param_function[t], memory)
TaskCost(t, memory) == TaskTime(t, memory) * memory

\* states.py: get_execution_time and get_cost of Workflow, Parallel and Task
\* at the memory sizes mem (a Map, as a Parallel over its iterations).
RECURSIVE WorkflowExecutionTime(_, _), WorkflowCost(_, _), MaxTimeFrom(_, _, _, _)

\* line 90: max(max_time, branch_time)
Smaller(max_time, branch_time) == IF max_time <= branch_time THEN max_time ELSE branch_time
Larger(max_time, branch_time) == IF max_time >= branch_time THEN max_time ELSE branch_time

\* lines 88-90: the loop over the branches from branch i on
MaxTimeFrom(s, i, max_time, mem) ==
  IF i > StateAt(s).n THEN max_time
  ELSE MaxTimeFrom(s, i + 1,
                   Larger(max_time, WorkflowExecutionTime(Append(s, i), mem)), mem)

ParallelExecutionTime(s, mem) == MaxTimeFrom(s, 1, 0, mem)

ParallelCost(s, mem) ==
  SumSeq([i \in 1 .. StateAt(s).n |-> WorkflowCost(Append(s, i), mem)])

StateExecutionTime(s, mem) ==
  IF StateAt(s).type = "Task" THEN TaskTime(s, mem[s]) ELSE ParallelExecutionTime(s, mem)

StateCost(s, mem) ==
  IF StateAt(s).type = "Task" THEN TaskCost(s, mem[s]) ELSE ParallelCost(s, mem)

WorkflowExecutionTime(p, mem) ==
  SumSeq([k \in 1 .. Len(wfs[p]) |-> StateExecutionTime(Append(p, k), mem)])

WorkflowCost(p, mem) ==
  SumSeq([k \in 1 .. Len(wfs[p]) |-> StateCost(Append(p, k), mem)])

\* Workflow.get_critical_path with the memory sizes mem: the Tasks on the
\* longest path and its time.
RECURSIVE WorkflowCriticalPath(_, _), StatesCriticalPath(_, _, _)

\* The first of the longest branches (iterations) among the critical paths cp.
FirstLongest(cp) ==
  cp[CHOOSE i \in 1 .. Len(cp) :
       /\ \A j \in 1 .. Len(cp) : cp[j].time <= cp[i].time
       /\ \A j \in 1 .. (i - 1) : cp[j].time < cp[i].time]

Joined(a, r) == [tasks |-> a.tasks \o r.tasks, time |-> a.time + r.time]

StateCriticalPath(s, mem) ==
  IF StateAt(s).type = "Task" THEN [tasks |-> <<s>>, time |-> TaskTime(s, mem[s])]
  ELSE IF StateAt(s).n = 0 THEN [tasks |-> <<>>, time |-> 0]
  ELSE TheOne({ FirstLongest(cp) :
                cp \in {[i \in 1 .. StateAt(s).n |-> WorkflowCriticalPath(Append(s, i), mem)]} })

StatesCriticalPath(p, k, mem) ==
  IF k > Len(wfs[p]) THEN [tasks |-> <<>>, time |-> 0]
  ELSE TheOne({ Joined(a, r) : a \in {StateCriticalPath(Append(p, k), mem)},
                              r \in {StatesCriticalPath(p, k + 1, mem)} })

WorkflowCriticalPath(p, mem) == StatesCriticalPath(p, 1, mem)

\* np.argmin: the first index of the minimum
ArgMinLast(v) ==
  CHOOSE i \in 1 .. Len(v) :
    /\ \A j \in 1 .. Len(v) : v[i] <= v[j]
    /\ \A j \in (i + 1) .. Len(v) : v[j] > v[i]
ArgMin(v) ==
  CHOOSE i \in 1 .. Len(v) :
    /\ \A j \in 1 .. Len(v) : v[i] <= v[j]
    /\ \A j \in 1 .. (i - 1) : v[j] > v[i]

\* lines 257-259: the memory size _optimize_one_function picks
MinMemory(space, costs) ==
  space[ArgMin(SubSeq(costs, Len(costs) - Len(space) + 1, Len(costs)))]

\* line 264: task.max_memory_size = memory_space[-1]
MaxMemoryFirst(space) == space[1]
MaxMemory(space) == space[Len(space)]

IndexedTasks ==
  UNION { { function_tasks_dict[f][i] : i \in 1 .. Len(function_tasks_dict[f]) }
          : f \in DOMAIN function_tasks_dict }

\* lines 221-280: every function is optimized by a pool worker of its own;
\* the Sampler's answers (curves, collective costs) are arbitrary.
OptimizeFunctions ==
  /\ epc = "init"
  /\ \E pf \in [IndexedTasks -> CurveIds] :
     \E cc \in [DOMAIN function_tasks_dict -> UNION { CostVectors(Len(a)) : a \in Axes }] :
       /\ \A f \in DOMAIN cc : Len(cc[f]) >= Len(memory_space[f])
       /\ param_function' = pf
       /\ collective_costs' = cc
       /\ memory_size' = [t \in IndexedTasks |-> MinMemory(memory_space[FnOf(t)], cc[FnOf(t)])]
       /\ initial_memory_size' =
            [t \in IndexedTasks |-> MinMemory(memory_space[FnOf(t)], cc[FnOf(t)])]
       /\ max_memory_size' =
            [t \in IndexedTasks |-> MaxMemory(memory_space[FnOf(t)])]
  /\ epc' = "optimized"
  /\ UNCHANGED <<memory_increment, threshold, memory_space, cost_increases,
                 critical_path_tasks, critical_path_time, calls, bumps, at_call, before>>
  /\ UNCHANGED propVars

\* lines 282-285
ResetMemorySizes ==
  /\ epc \in {"optimized", "returned", "raised"}
  /\ memory_size' = [t \in DOMAIN memory_size |-> initial_memory_size[t]]
  /\ epc' = "optimized"
  /\ collective_costs' = <<>>
  /\ UNCHANGED <<memory_increment, threshold, memory_space, param_function,
                 initial_memory_size, max_memory_size, cost_increases,
                 critical_path_tasks, critical_path_time, calls, bumps, at_call, before>>
  /\ UNCHANGED propVars

\* lines 306-308 and 344-346: what one more increment would add to the cost
\* of function f's Tasks, at the memory sizes mem
CostIncreaseStale(f, mem) ==
  SumSeq([i \in 1 .. Len(function_tasks_dict[f]) |->
            LET task == function_tasks_dict[f][i] IN
            TaskCost(task, memory_size[task] + memory_increment)
              - TaskCost(task, memory_size[task])])
CostIncrease(f, mem) ==
  SumSeq([i \in 1 .. Len(function_tasks_dict[f]) |->
            LET task == function_tasks_dict[f][i] IN
            TaskCost(task, mem[task] + memory_increment) - TaskCost(task, mem[task])])

Callable == epc \in {"optimized", "returned", "raised"} /\ calls < MaxCalls

AtCall == [memory_size |-> memory_size, time |-> WorkflowCriticalPath(<<>>, memory_size).time]

\* lines 293-295: no threshold, return
ReturnNoThreshold ==
  /\ Callable
  /\ threshold = None
  /\ epc' = "returned"
  /\ calls' = calls + 1
  /\ bumps' = 0
  /\ at_call' = AtCall
  /\ before' = [before EXCEPT !.bumped = FALSE]
  /\ collective_costs' = <<>>
  /\ UNCHANGED <<memory_increment, threshold, memory_space, param_function, memory_size,
                 initial_memory_size, max_memory_size, cost_increases,
                 critical_path_tasks, critical_path_time>>
  /\ UNCHANGED propVars

\* lines 297-308: the critical path and the cost increases are computed
BeginEscalation ==
  /\ Callable
  /\ threshold # None
  /\ LET cp == WorkflowCriticalPath(<<>>, memory_size) IN
       /\ critical_path_tasks' = cp.tasks
       /\ critical_path_time' = cp.time
  /\ cost_increases' = [f \in DOMAIN function_tasks_dict |-> CostIncrease(f, memory_size)]
  /\ epc' = "loop"
  /\ calls' = calls + 1
  /\ bumps' = 0
  /\ at_call' = AtCall
  /\ before' = [before EXCEPT !.bumped = FALSE]
  /\ collective_costs' = <<>>
  /\ UNCHANGED <<memory_increment, threshold, memory_space, param_function, memory_size,
                 initial_memory_size, max_memory_size>>
  /\ UNCHANGED propVars

\* line 311: the loop's condition
LoopConditionOrEqual == critical_path_time >= threshold
LoopCondition == critical_path_time > threshold

\* line 316: the Task cannot take one more increment
CappedIgnoringIncrement(task) == memory_size[task] > max_memory_size[task]
Capped(task) == memory_size[task] + memory_increment > max_memory_size[task]

\* lines 312-324: time_reductions, as the functions in the order they are
\* first seen on the critical path (keys) and each one's sum (sum)
AppendNew(r, x) == IF \E i \in 1 .. Len(r) : r[i] = x THEN r ELSE Append(r, x)

RECURSIVE FirstSeen(_)
FirstSeen(q) ==
  IF q = <<>> THEN <<>>
  ELSE TheOne({ AppendNew(r, Last(q)) : r \in {FirstSeen(Front(q))} })

TimeReduction(t) ==
  TaskTime(t, memory_size[t]) - TaskTime(t, memory_size[t] + memory_increment)

SummedByFunction(open, keys) ==
  [keys |-> keys,
   sum |-> [f \in { keys[i] : i \in 1 .. Len(keys) } |->
              SumSeq([i \in 1 .. Len(open) |->
                        IF FnOf(open[i]) = f THEN TimeReduction(open[i]) ELSE 0])]]

TimeReductions ==
  TheOne({ SummedByFunction(open, FirstSeen([i \in 1 .. Len(open) |-> FnOf(open[i])])) :
           open \in {SelectSeq(critical_path_tasks, LAMBDA t : ~Capped(t))} })

NoFunction == ""

\* line 330: only a function that reduces the time is a candidate
ReducesOrKeeps(time_reduction) == time_reduction >= 0
Reduces(time_reduction) == time_reduction > 0

\* lines 327-337: the function with the lowest ratio
\* cost_increases[f] / time_reductions[f], the first one on ties
\* lines 331 and 335: ratio < lowest_ratio, for the ratios cost / reduction of
\* two functions with a positive reduction
LowerOrEqual(cost, reduction, lowest_cost, lowest_reduction) ==
  cost * lowest_reduction <= lowest_cost * reduction
Lower(cost, reduction, lowest_cost, lowest_reduction) ==
  cost * lowest_reduction < lowest_cost * reduction

RECURSIVE BestFrom(_, _, _)
BestFrom(tr, i, best) ==
  IF i > Len(tr.keys) THEN best
  ELSE LET f == tr.keys[i] IN
       IF /\ Reduces(tr.sum[f])
          /\ \/ best = NoFunction
             \/ Lower(cost_increases[f], tr.sum[f], cost_increases[best], tr.sum[best])
         THEN BestFrom(tr, i + 1, f)
         ELSE BestFrom(tr, i + 1, best)

BestFunction(time_reductions) == BestFrom(time_reductions, 1, NoFunction)

\* line 342: the Tasks the bump of function f goes over
CriticalTasksOf(f) ==
  { critical_path_tasks[i] : i \in 1 .. Len(critical_path_tasks) }
    \cap { function_tasks_dict[f][i] : i \in 1 .. Len(function_tasks_dict[f]) }
BumpedTasks(f) == { function_tasks_dict[f][i] : i \in 1 .. Len(function_tasks_dict[f]) }

\* Task.increase_memory_size(memory_increment) on every Task of function f
IncreaseMemorySize(f) ==
  [t \in DOMAIN memory_size |->
     IF t \in BumpedTasks(f) THEN memory_size[t] + memory_increment ELSE memory_size[t]]

\* The time along the path tasks at the memory sizes mem
PathTime(tasks, mem) == SumSeq([i \in 1 .. Len(tasks) |-> TaskTime(tasks[i], mem[tasks[i]])])

\* line 351: the critical path and its time at the new memory sizes
UpdatedAlongOldPath(mem) ==
  [tasks |-> critical_path_tasks, time |-> PathTime(critical_path_tasks, mem)]
UpdatedCriticalPath(mem) == WorkflowCriticalPath(<<>>, mem)

Before(bumped) ==
  [memory_size |-> memory_size, cost_increases |-> cost_increases,
   tasks |-> critical_path_tasks, time |-> critical_path_time, bumped |-> bumped]

\* line 311 is false: lines 355-360, the call returns
LoopExit ==
  /\ epc = "loop"
  /\ ~LoopCondition
  /\ epc' = "returned"
  /\ before' = Before(FALSE)
  /\ UNCHANGED <<memory_increment, threshold, memory_space, param_function, collective_costs,
                 memory_size,
                 initial_memory_size, max_memory_size, cost_increases,
                 critical_path_tasks, critical_path_time, calls, bumps, at_call>>
  /\ UNCHANGED propVars

\* lines 312-346 and 351: one iteration that bumps the best function
LoopBump ==
  /\ epc = "loop"
  /\ LoopCondition
  /\ \E time_reductions \in {TimeReductions} :
     \E best \in {BestFunction(time_reductions)} :
       /\ best # NoFunction
       /\ \E mem \in {IncreaseMemorySize(best)} :
          \E cp \in {UpdatedCriticalPath(mem)} :
            /\ memory_size' = mem
            /\ cost_increases' = [cost_increases EXCEPT ![best] = CostIncrease(best, mem)]
            /\ critical_path_tasks' = cp.tasks
            /\ critical_path_time' = cp.time
  /\ bumps' = bumps + 1
  /\ before' = Before(TRUE)
  /\ UNCHANGED <<memory_increment, threshold, memory_space, param_function, collective_costs,
                 initial_memory_size, max_memory_size, epc, calls, at_call>>
  /\ UNCHANGED propVars

\* lines 347-348: raise StepFunctionError("Execution time threshold too low.")
LoopRaise ==
  /\ epc = "loop"
  /\ LoopCondition
  /\ \E time_reductions \in {TimeReductions} :
       BestFunction(time_reductions) = NoFunction
  /\ epc' = "raised"
  /\ before' = Before(FALSE)
  /\ UNCHANGED <<memory_increment, threshold, memory_space, param_function, collective_costs,
                 memory_size,
                 initial_memory_size, max_memory_size, cost_increases,
                 critical_path_tasks, critical_path_time, calls, bumps, at_call>>
  /\ UNCHANGED propVars

\* The state after lines 26-28 for a definition and an item count, with the
\* configuration and each function's memory axis.
InitEsc ==
  /\ definition \in EscDefIds
  /\ \E n \in 0 .. MaxItems :
       /\ definition # 2 => n = 0
       /\ workflow_input = RawText(Obj(Arr(Iota(n))))
       /\ wfs = EscWorkflow(definition, n).wfs
       /\ function_tasks_dict = IndexAll(EscWorkflow(definition, n).tasks,
                                         EscWorkflow(definition, n).wfs, <<>>)
  /\ task_input = <<>>
  /\ state_input = <<>>
  /\ state_output = <<>>
  /\ frames = <<>>
  /\ ppc = "propagated"
  /\ memory_increment \in Increments
  /\ threshold \in Thresholds
  /\ \E a \in Axes : memory_space = [f \in DOMAIN function_tasks_dict |-> a]
  /\ param_function = <<>>
  /\ collective_costs = <<>>
  /\ memory_size = <<>>
  /\ initial_memory_size = <<>>
  /\ max_memory_size = <<>>
  /\ cost_increases = <<>>
  /\ critical_path_tasks = <<>>
  /\ critical_path_time = 0
  /\ epc = "init"
  /\ calls = 0
  /\ bumps = 0
  /\ at_call = [memory_size |-> <<>>, time |-> 0]
  /\ before = [memory_size |-> <<>>, cost_increases |-> <<>>, tasks |-> <<>>, time |-> 0,
               bumped |-> FALSE]

NextEsc ==
  \/ OptimizeFunctions
  \/ ResetMemorySizes
  \/ ReturnNoThreshold
  \/ BeginEscalation
  \/ LoopExit
  \/ LoopBump
  \/ LoopRaise

SpecEsc == InitEsc /\ [][NextEsc]_vars

\* The calls of optimize_whole_step_function alone (no reset between them).
\* The loop is the body of one call on one thread: once entered it keeps
\* running until the call returns or raises.
NextCalls ==
  \/ OptimizeFunctions
  \/ ReturnNoThreshold
  \/ BeginEscalation
  \/ LoopExit
  \/ LoopBump
  \/ LoopRaise

FairSpecEsc ==
  InitEsc /\ [][NextCalls]_vars /\ WF_vars(LoopExit \/ LoopBump \/ LoopRaise)

(***************************************************************************)
(* Claims about the builder and the propagator (specification Spec).       *)
(***************************************************************************)
\* The Tasks reachable from workflow p through branches and materialized iterations.
RECURSIVE TasksOf(_)
TasksOf(p) ==
  UNION { LET s == Append(p, k) IN
          IF wfs[p][k].type = "Task" THEN {s}
          ELSE UNION { TasksOf(Append(s, i)) : i \in 1 .. wfs[p][k].n }
        : k \in 1 .. Len(wfs[p]) }

Occurrences(list, x) == Cardinality({ i \in 1 .. Len(list) : list[i] = x })

IndexedOnce(t) ==
  /\ StateAt(t).function_name \in DOMAIN function_tasks_dict
  /\ \A f \in DOMAIN function_tasks_dict :
       Occurrences(function_tasks_dict[f], t) = IF f = StateAt(t).function_name THEN 1 ELSE 0

\* C1: once _create_workflow and _set_workflow_payloads have completed, every
\* Task reachable from the root workflow is in function_tasks_dict exactly
\* once, under its function_name, whatever the interleaving of the workers.
C1_EveryTaskIndexedOnce ==
  ppc = "propagated" => \A t \in TasksOf(<<>>) : IndexedOnce(t)

StatesOfType(type) == { s \in DOMAIN state_output : StateAt(s).type = type }

InChildOrder(s) ==
  LET out == json_loads(state_output[s]) IN
  /\ out.k = "arr"
  /\ Len(out.a) = StateAt(s).n
  /\ \A i \in 1 .. StateAt(s).n : out.a[i] = json_loads(frames[Append(s, i)].payload)

\* C2: the array a Parallel state returns has the output of branch i at
\* position i, whatever the order in which the branch workers complete.
C2_ParallelOutputInBranchOrder ==
  \A s \in StatesOfType("Parallel") : InChildOrder(s)

\* C3: the array a Map state returns has at position i the output of the
\* iteration that processed item i, whatever the order in which the iteration
\* workers complete.
C3_MapOutputInItemOrder ==
  \A s \in StatesOfType("Map") : InChildOrder(s)

\* The pooled calls submitted for the branches or iterations of state s.
Workers(s) == { c \in DOMAIN frames : Len(c) = Len(s) + 1 /\ Front(c) = s }

\* C12: when the worker of a Parallel branch or Map iteration has raised, the
\* enclosing _set_workflow_payloads call never returns an output for that
\* state, and it has raised only if every worker submitted to the same pool
\* has finished.
C12_WorkerErrorAbortsAfterSiblings ==
  \A c \in DOMAIN frames :
    (c # <<>> /\ frames[c].status = "failed") =>
      /\ frames[Front(Front(c))].status # "done"
      /\ Front(c) \notin DOMAIN state_output
      /\ frames[Front(Front(c))].status = "failed" =>
           \A d \in Workers(Front(c)) : frames[d].status \in {"done", "failed"}

C12_Witness ==
  \E c \in DOMAIN frames :
    /\ c # <<>>
    /\ frames[c].status = "failed"
    /\ frames[Front(Front(c))].status = "failed"
    /\ \E d \in Workers(Front(c)) : frames[d].status = "done"

\* The definition the workflow at path p was built from.
RECURSIVE DefAt(_)
DefAt(p) ==
  IF p = <<>> THEN DefOf(definition)
  ELSE LET state_def == DefAt(Front(Front(p))).States[StateAt(Front(p)).name] IN
       IF state_def.Type = "Parallel" THEN state_def.Branches[Last(p)]
       ELSE state_def.Iterator

\* names is the chain from StartAt along Next up to the first state without Next.
IsChain(workflow_def, names) ==
  /\ names # <<>>
  /\ names[1] = workflow_def.StartAt
  /\ \A k \in 1 .. (Len(names) - 1) :
       /\ "Next" \in DOMAIN workflow_def.States[names[k]]
       /\ workflow_def.States[names[k]].Next = names[k + 1]
  /\ "Next" \notin DOMAIN workflow_def.States[names[Len(names)]]

\* The state object at path s is the variant its definition names.
BuiltAs(state, state_def, s) ==
  CASE state_def.Type = "Task" ->
         /\ state.type = "Task"
         /\ state.function_name = state_def.Parameters.FunctionName
    [] state_def.Type = "Parallel" ->
         /\ state.type = "Parallel"
         /\ state.n = Len(state_def.Branches)
         /\ \A i \in 1 .. state.n : Append(s, i) \in DOMAIN wfs
    [] state_def.Type = "Map" ->
         /\ state.type = "Map"
         /\ state.workflow_def = state_def.Iterator
         /\ state.items_path = state_def.ItemsPath
    [] OTHER -> FALSE

WellBuilt(p) ==
  /\ IsChain(DefAt(p), [k \in 1 .. Len(wfs[p]) |-> wfs[p][k].name])
  /\ \A k \in 1 .. Len(wfs[p]) :
       BuiltAs(wfs[p][k], DefAt(p).States[wfs[p][k].name], Append(p, k))

\* The workflow at p was returned by _create_workflow: the root call did not
\* raise, and p is a branch, or an iteration assigned to its Map.
RECURSIVE Returned(_)
Returned(p) ==
  IF p = <<>> THEN frames # <<>> /\ frames[<<>>].ok
  ELSE Returned(Front(Front(p))) /\ Last(p) <= StateAt(Front(p)).n

IsUnder(q, s) == Len(q) > Len(s) /\ SubSeq(q, 1, Len(s)) = s

\* The state names _create_workflow visits, and whether one of them, or of a
\* visited Parallel's branches, has a Type other than Task, Parallel or Map.
RECURSIVE VisitedFrom(_, _)
VisitedFrom(workflow_def, state_name) ==
  {state_name} \cup
    (IF "Next" \in DOMAIN workflow_def.States[state_name]
       THEN VisitedFrom(workflow_def, workflow_def.States[state_name].Next) ELSE {})

RECURSIVE HasUnsupported(_)
HasUnsupported(workflow_def) ==
  \E name \in VisitedFrom(workflow_def, workflow_def.StartAt) :
    LET state_def == workflow_def.States[name] IN
    \/ state_def.Type \notin {"Task", "Parallel", "Map"}
    \/ /\ state_def.Type = "Parallel"
       /\ \E i \in 1 .. Len(state_def.Branches) : HasUnsupported(state_def.Branches[i])

Selected(input, items_path) ==
  IF items_path = "$" THEN input.v ELSE input.v.a[1]

MapStates ==
  { s \in UNION { { Append(p, k) : k \in 1 .. Len(wfs[p]) } : p \in DOMAIN wfs } :
      StateAt(s).type = "Map" }

\* C17: a Map state has no iterations before the Propagator has evaluated
\* its items path; once it has iterations or has returned, a Map whose items
\* path selects a list of n items has exactly n iterations, and the call of
\* iteration i received the JSON serialization of item i (no iteration for
\* an empty list).
C17_MapIterationsFollowItems ==
  \A s \in MapStates :
    /\ s \notin DOMAIN state_input =>
         /\ StateAt(s).n = 0
         /\ \A q \in DOMAIN wfs : ~IsUnder(q, s)
    /\ (s \in DOMAIN state_input /\ (StateAt(s).n > 0 \/ s \in DOMAIN state_output)) =>
         LET value == Selected(state_input[s], StateAt(s).items_path) IN
         value.k = "arr" =>
           /\ StateAt(s).n = Len(value.a)
           /\ Workers(s) = { Append(s, i) : i \in 1 .. Len(value.a) }
           /\ \A i \in 1 .. Len(value.a) :
                /\ Append(s, i) \in DOMAIN wfs
                /\ frames[Append(s, i)].input = [v |-> value.a[i], fmt |-> "py"]
           /\ \A q \in DOMAIN wfs : IsUnder(q, s) => q[Len(s) + 1] <= Len(value.a)

C17_Witness ==
  /\ ppc = "propagated"
  /\ \E s \in MapStates :
       /\ s \in DOMAIN state_output
       /\ StateAt(s).n = 2
       /\ frames[Append(s, 1)].input # frames[Append(s, 2)].input
  /\ \E s \in MapStates :
       /\ s \in DOMAIN state_output
       /\ StateAt(s).n < 2

AllChildrenDone(s) ==
  StateAt(s).type \in {"Parallel", "Map"} =>
    \A i \in 1 .. StateAt(s).n : frames[Append(s, i)].status = "done"

\* C18: within one Workflow the states are processed in sequence: the first
\* state receives the call's input, state k+1 is started only after state k
\* (with all its branches or iterations) has produced its output and
\* receives exactly that output, a Task records the input it received,
\* every branch of a Parallel receives the Parallel's input, and the call
\* returns the last state's output.
C18_StatesRunInSequence ==
  \A p \in DOMAIN frames :
    /\ p = <<>> => frames[p].input = workflow_input
    /\ \A k \in 1 .. Len(wfs[p]) :
         /\ Append(p, k) \in DOMAIN state_input =>
              /\ k = 1 => state_input[Append(p, k)] = frames[p].input
              /\ k > 1 =>
                   /\ Append(p, k - 1) \in DOMAIN state_output
                   /\ state_input[Append(p, k)] = state_output[Append(p, k - 1)]
         /\ Append(p, k) \in DOMAIN state_output =>
              /\ Append(p, k) \in DOMAIN state_input
              /\ AllChildrenDone(Append(p, k))
         /\ Append(p, k) \in DOMAIN task_input =>
              task_input[Append(p, k)] = state_input[Append(p, k)]
         /\ wfs[p][k].type = "Parallel" =>
              \A c \in Workers(Append(p, k)) : frames[c].input = state_input[Append(p, k)]
    /\ frames[p].status = "done" =>
         frames[p].payload = state_output[Append(p, Len(wfs[p]))]

C18_Witness ==
  /\ definition = 4
  /\ ppc = "propagated"
  /\ StateAt(<<2>>).n = 2
  /\ state_input[<<3>>] = state_output[<<2>>]
  /\ state_input[<<2>>] = state_output[<<1>>]
  /\ frames[<<>>].payload = state_output[<<3>>]

\* The call p is between the check of line 90 and the append of line 94.
InsideInsert(p) == Inserting(p) /\ frames[p].step # "check"

\* C20: no two threads are at the same time inside a check-and-insert on
\* function_tasks_dict (lines 90-94).
C20_IndexMutationsDoNotOverlap ==
  Cardinality({ p \in DOMAIN frames : InsideInsert(p) }) <= 1

(***************************************************************************)
(* Claims about the optimizer (specifications SpecEsc and FairSpecEsc).    *)
(***************************************************************************)
RECURSIVE SumOver(_, _)
SumOver(g, S) ==
  IF S = {} THEN 0
  ELSE LET x == CHOOSE x \in S : TRUE IN g[x] + SumOver(g, S \ {x})

ParallelStates ==
  { s \in UNION { { Append(p, k) : k \in 1 .. Len(wfs[p]) } : p \in DOMAIN wfs } :
      StateAt(s).type = "Parallel" }

\* C11: with the Tasks' times and costs given, the time of a Workflow is the
\* sum of its states' times and its cost the sum of their costs; the time of
\* a Parallel is the largest of its branches' times and its cost the sum of
\* their costs; a Parallel with no branch has time 0 and cost 0.
C11_TimesAndCostsCompose ==
  epc # "init" =>
    /\ \A p \in DOMAIN wfs :
         /\ WorkflowExecutionTime(p, memory_size) =
              SumOver([k \in 1 .. Len(wfs[p]) |->
                         StateExecutionTime(Append(p, k), memory_size)], 1 .. Len(wfs[p]))
         /\ WorkflowCost(p, memory_size) =
              SumOver([k \in 1 .. Len(wfs[p]) |->
                         StateCost(Append(p, k), memory_size)], 1 .. Len(wfs[p]))
    /\ \A s \in ParallelStates :
         LET time == StateExecutionTime(s, memory_size)
             times == [i \in 1 .. StateAt(s).n |->
                         WorkflowExecutionTime(Append(s, i), memory_size)]
             costs == [i \in 1 .. StateAt(s).n |-> WorkflowCost(Append(s, i), memory_size)]
         IN /\ StateAt(s).n = 0 => (time = 0 /\ StateCost(s, memory_size) = 0)
            /\ StateAt(s).n > 0 =>
                 /\ \E i \in 1 .. StateAt(s).n : time = times[i]
                 /\ \A i \in 1 .. StateAt(s).n : time >= times[i]
            /\ StateCost(s, memory_size) = SumOver(costs, 1 .. StateAt(s).n)

C11_Witness ==
  /\ definition = 9
  /\ epc # "init"
  /\ StateExecutionTime(<<1>>, memory_size) = 0
  /\ WorkflowExecutionTime(<<2, 1>>, memory_size) < WorkflowExecutionTime(<<2, 2>>, memory_size)
  /\ WorkflowExecutionTime(<<>>, memory_size) = WorkflowExecutionTime(<<2, 2>>, memory_size)
  /\ WorkflowCost(<<>>, memory_size) =
       WorkflowCost(<<2, 1>>, memory_size) + WorkflowCost(<<2, 2>>, memory_size)

\* C4, as claimed: after every iteration that did not raise, the workflow's
\* critical-path time is strictly smaller than before the iteration.
C4_CriticalPathTimeDecreases ==
  before.bumped => critical_path_time < before.time

\* C4, amended: after every iteration that did not raise, the time along the
\* path that was critical before the iteration is strictly smaller than the
\* critical-path time before the iteration.
C4_OldCriticalPathGetsFaster ==
  before.bumped => PathTime(before.tasks, memory_size) < before.time

C4_Witness ==
  /\ before.bumped
  /\ critical_path_time >= before.time
  /\ PathTime(before.tasks, memory_size) < before.time

\* The room of a function: max_memory_size - initial_memory_size of its Tasks.
Room ==
  [f \in DOMAIN function_tasks_dict |->
     max_memory_size[function_tasks_dict[f][1]]
       - initial_memory_size[function_tasks_dict[f][1]]]

BumpsWithinRoom ==
  epc \in {"loop", "returned", "raised"} =>
    bumps * memory_increment <= SumOver(Room, DOMAIN function_tasks_dict)

\* C5: the escalation loop always ends, by returning or by raising, and the
\* iterations that bump a function are at most the sum over the functions of
\* (max_memory_size - initial_memory_size) / memory_increment.
C5_LoopEndsWithinRoom ==
  /\ []BumpsWithinRoom
  /\ [](epc = "loop" => <>(epc \in {"returned", "raised"}))

C5_Witness ==
  /\ epc \in {"returned", "raised"}
  /\ bumps >= 2
  /\ bumps * memory_increment = SumOver(Room, DOMAIN function_tasks_dict)

\* C6: once _optimize_functions has finished, every Task of the index has
\* initial_memory_size <= memory_size <= max_memory_size.
C6_MemoryWithinBounds ==
  epc # "init" =>
    \A t \in IndexedTasks :
      initial_memory_size[t] <= memory_size[t] /\ memory_size[t] <= max_memory_size[t]

C6_Witness ==
  /\ epc = "raised"
  /\ \E t \in IndexedTasks :
       initial_memory_size[t] < memory_size[t] /\ memory_size[t] = max_memory_size[t]

OnAxis(t) ==
  \E i \in 1 .. Len(memory_space[FnOf(t)]) : memory_space[FnOf(t)][i] = memory_size[t]

\* C7: once _optimize_functions has finished, every Task's memory_size is an
\* element of its function's memory axis, whatever the axis and the increment.
C7_MemoryOnAxis ==
  epc # "init" => \A t \in IndexedTasks : OnAxis(t)

\* C8: when optimize_whole_step_function returns normally with a threshold
\* set, the critical-path time at the final memory sizes is not greater than
\* the threshold.
C8_ReturnMeetsThreshold ==
  (epc = "returned" /\ threshold # None) =>
    WorkflowCriticalPath(<<>>, memory_size).time <= threshold

C8_Witness ==
  /\ epc = "returned"
  /\ threshold # None
  /\ bumps >= 1
  /\ WorkflowCriticalPath(<<>>, memory_size).time <= threshold

AllCriticalTasksCapped ==
  \A i \in 1 .. Len(critical_path_tasks) :
    memory_size[critical_path_tasks[i]] + memory_increment
      > max_memory_size[critical_path_tasks[i]]

\* C9: when the critical-path time exceeds the threshold and every Task on
\* the critical path has memory_size + memory_increment > max_memory_size,
\* the iteration raises the infeasibility error and changes no memory_size.
C9_InfeasibleRaisesUnchanged ==
  [][(epc = "loop" /\ critical_path_time > threshold /\ AllCriticalTasksCapped)
       => (epc' = "raised" /\ memory_size' = memory_size)]_vars

C9_Witness ==
  /\ epc = "raised"
  /\ critical_path_tasks # <<>>
  /\ critical_path_time > threshold
  /\ AllCriticalTasksCapped
  /\ bumps >= 1
  /\ memory_size = before.memory_size

\* C10: a call with no threshold, or with the critical-path time already not
\* greater than the threshold, returns with every memory_size as it was when
\* the call began (so a second call after a successful one changes nothing).
C10_NothingToDoChangesNothing ==
  (epc = "returned" /\ (threshold = None \/ at_call.time <= threshold)) =>
    memory_size = at_call.memory_size

C10_Witness ==
  /\ epc = "returned"
  /\ threshold # None
  /\ calls = 2
  /\ at_call.time <= threshold
  /\ memory_size # initial_memory_size
  /\ memory_size = at_call.memory_size

\* The functions whose Tasks' memory_size the last iteration changed.
BumpedFunctions ==
  { f \in DOMAIN function_tasks_dict :
      \E t \in IndexedTasks : FnOf(t) = f /\ memory_size[t] # before.memory_size[t] }

\* Before the last iteration: the positions on the critical path of the
\* uncapped Tasks of function f, and the time one increment would have saved
\* on them.
OpenBefore(f) ==
  { i \in 1 .. Len(before.tasks) :
      /\ FnOf(before.tasks[i]) = f
      /\ before.memory_size[before.tasks[i]] + memory_increment
           <= max_memory_size[before.tasks[i]] }

ReductionBefore(f) ==
  SumOver([i \in 1 .. Len(before.tasks) |->
             TaskTime(before.tasks[i], before.memory_size[before.tasks[i]])
               - TaskTime(before.tasks[i],
                          before.memory_size[before.tasks[i]] + memory_increment)],
          OpenBefore(f))

CandidatesBefore ==
  { f \in DOMAIN function_tasks_dict : OpenBefore(f) # {} /\ ReductionBefore(f) > 0 }

FirstPosition(f) == CHOOSE i \in OpenBefore(f) : \A j \in OpenBefore(f) : i <= j

\* cost_increases[f] / time_reductions[f] <= cost_increases[g] / time_reductions[g]
RatioAtMost(f, g) ==
  before.cost_increases[f] * ReductionBefore(g)
    <= before.cost_increases[g] * ReductionBefore(f)

\* C14: the function an iteration bumps is, among the functions with an
\* uncapped Task on the critical path and a positive time reduction, one of
\* minimal ratio cost_increases / time_reductions, and among those of
\* minimal ratio the one met first on the critical path.
C14_BumpsLowestRatioFirstSeen ==
  before.bumped =>
    \E f \in CandidatesBefore :
      /\ BumpedFunctions = {f}
      /\ \A g \in CandidatesBefore :
           /\ RatioAtMost(f, g)
           /\ RatioAtMost(g, f) => FirstPosition(f) <= FirstPosition(g)

C14_Witness ==
  /\ before.bumped
  /\ \E f \in CandidatesBefore :
       /\ BumpedFunctions = {f}
       /\ \E g \in CandidatesBefore :
            g # f /\ RatioAtMost(g, f) /\ FirstPosition(f) < FirstPosition(g)

\* C15: an iteration that bumps function f raises memory_size by exactly
\* memory_increment on every Task of f, on and off the critical path, and
\* leaves the memory_size of every other Task and the cost_increases entry
\* of every other function as they were; no memory_size is ever below what
\* it was when the call began.
C15_BumpTouchesOnlyChosenFunction ==
  /\ before.bumped =>
       \E f \in DOMAIN function_tasks_dict :
         /\ \A t \in IndexedTasks :
              memory_size[t] =
                before.memory_size[t] + (IF FnOf(t) = f THEN memory_increment ELSE 0)
         /\ \A g \in DOMAIN function_tasks_dict \ {f} :
              cost_increases[g] = before.cost_increases[g]
  /\ epc \in {"loop", "returned", "raised"} =>
       \A t \in IndexedTasks : memory_size[t] >= at_call.memory_size[t]

C15_Witness ==
  /\ before.bumped
  /\ \E t \in IndexedTasks :
       /\ memory_size[t] = before.memory_size[t] + memory_increment
       /\ \A i \in 1 .. Len(before.tasks) : before.tasks[i] # t
  /\ \E t \in IndexedTasks : memory_size[t] = before.memory_size[t]
  /\ \E g \in DOMAIN function_tasks_dict :
       g \notin BumpedFunctions /\ cost_increases[g] # 0

\* What one more increment would add to the cost of the Tasks of function f
\* at their current memory_size.
CostOfOneMore(f) ==
  SumOver([t \in IndexedTasks |->
             IF FnOf(t) = f
               THEN TaskCost(t, memory_size[t] + memory_increment)
                      - TaskCost(t, memory_size[t])
               ELSE 0],
          IndexedTasks)

\* C16: at the start of every iteration of the loop, cost_increases[f] is,
\* for every function f of the index, the sum over f's Tasks of
\* cost(memory_size + memory_increment) - cost(memory_size) at the current
\* memory_size.
C16_CostIncreasesAreCurrent ==
  epc = "loop" =>
    /\ DOMAIN cost_increases = DOMAIN function_tasks_dict
    /\ \A f \in DOMAIN function_tasks_dict : cost_increases[f] = CostOfOneMore(f)

C16_Witness ==
  /\ epc = "loop"
  /\ bumps >= 2
  /\ \E f \in BumpedFunctions :
       /\ cost_increases[f] # before.cost_increases[f]
       /\ cost_increases[f] = CostOfOneMore(f)
  /\ \E g \in DOMAIN function_tasks_dict :
       g \notin BumpedFunctions /\ cost_increases[g] # 0

\* The part of the collective costs of function f that lies over its memory axis.
CostsOverAxis(f) ==
  SubSeq(collective_costs[f], Len(collective_costs[f]) - Len(memory_space[f]) + 1,
         Len(collective_costs[f]))

\* C19: when _optimize_one_function has returned for a function with axis
\* m_1 < ... < m_n, every Task of the function has memory_size =
\* initial_memory_size = m_j, j being the smallest index of a minimum of the
\* collective costs over the axis, and max_memory_size = m_n.
C19_PicksFirstCostMinimum ==
  (epc = "optimized" /\ collective_costs # <<>>) =>
    \A t \in IndexedTasks :
      /\ \E j \in 1 .. Len(memory_space[FnOf(t)]) :
           /\ memory_size[t] = memory_space[FnOf(t)][j]
           /\ initial_memory_size[t] = memory_space[FnOf(t)][j]
           /\ \A i \in 1 .. Len(memory_space[FnOf(t)]) :
                CostsOverAxis(FnOf(t))[j] <= CostsOverAxis(FnOf(t))[i]
           /\ \A i \in 1 .. (j - 1) :
                CostsOverAxis(FnOf(t))[i] > CostsOverAxis(FnOf(t))[j]
      /\ max_memory_size[t] = memory_space[FnOf(t)][Len(memory_space[FnOf(t)])]

C19_Witness ==
  /\ epc = "optimized"
  /\ collective_costs # <<>>
  /\ \E t \in IndexedTasks :
       /\ memory_size[t] = memory_space[FnOf(t)][2]
       /\ CostsOverAxis(FnOf(t))[2] = CostsOverAxis(FnOf(t))[3]
       /\ CostsOverAxis(FnOf(t))[1] > CostsOverAxis(FnOf(t))[2]
  /\ \E t \in IndexedTasks : Len(collective_costs[FnOf(t)]) > Len(memory_space[FnOf(t)])

\* lines 359-360: the memory size the final report prints for function f
ReportedMemorySize(f) == memory_size[function_tasks_dict[f][1]]

\* C21: once _optimize_functions has finished (during and after every
\* escalation and after reset_memory_sizes), the Tasks listed under one
\* function in function_tasks_dict have the same memory_size, the same
\* initial_memory_size and the same max_memory_size, so the size the final
\* report prints for a function is the memory_size of each of its Tasks.
C21_TasksOfAFunctionShareSizes ==
  epc # "init" =>
    \A f \in DOMAIN function_tasks_dict :
      \A i \in 1 .. Len(function_tasks_dict[f]) :
        LET t == function_tasks_dict[f][i]
            first == function_tasks_dict[f][1]
        IN /\ memory_size[t] = ReportedMemorySize(f)
           /\ initial_memory_size[t] = initial_memory_size[first]
           /\ max_memory_size[t] = max_memory_size[first]

C21_Witness ==
  /\ before.bumped
  /\ epc = "loop"
  /\ \E f \in BumpedFunctions :
       /\ Len(function_tasks_dict[f]) >= 2
       /\ ReportedMemorySize(f) > initial_memory_size[function_tasks_dict[f][1]]
       /\ \E i \in 1 .. Len(function_tasks_dict[f]) :
            /\ \A k \in 1 .. Len(before.tasks) : before.tasks[k] # function_tasks_dict[f][i]
            /\ memory_size[function_tasks_dict[f][i]] = ReportedMemorySize(f)

====
